---- MODULE Spec2Model ----
(***************************************************************************)
(* Model of getIssues (src/app/page.tsx): the per-username issue           *)
(* enrichment loop and the process-wide issueCache in front of it.         *)
(*                                                                         *)
(* getIssues is an async function: it runs without interruption from one   *)
(* await to the next, so every action below is one such synchronous        *)
(* stretch.  Several calls may be in flight at once (one per page render); *)
(* they share issueCache and nothing else.  Arrays are modelled by         *)
(* reference (heap) because the array returned to the caller is the very   *)
(* array stored in the cache entry.                                        *)
(*                                                                         *)
(* The earlier revision of the page (without issueCache and without        *)
(* `merged`) has the same loop over usernames and issues, statement for    *)
(* statement; what is shown here of that loop holds of both.               *)
(***************************************************************************)
EXTENDS Integers, Sequences, FiniteSets, TLC

VARIABLES
    call,        \* call[p]: the activation record of the getIssues call of render p
    issueCache,  \* the module-level object issueCache: cacheKey -> CacheEntry
    heap,        \* heap[r]: contents of the r-th `issues` array allocated
    owner,       \* history: owner[r] = <<repo, usernames>> of the call that allocated heap[r]
    now          \* Date.now()

vars == <<call, issueCache, heap, owner, now>>

(***************************************************************************)
(* Bounds of the model.                                                    *)
(***************************************************************************)
MaxRuns == 1       \* pipeline runs (cache misses) explored, one render at a time
MaxCacheRuns == 2  \* pipeline runs explored on inputs with close cache keys
MaxRenderRuns == 2 \* pipeline runs explored with overlapping renders
MaxTicks == 1      \* clock advances explored, of each granularity

\* The page renders whose getIssues calls may overlap.
Procs == {1, 2}

(***************************************************************************)
(* JavaScript values.                                                      *)
(***************************************************************************)
\* null / undefined: a value outside the strings the API returns.
null == "<null>"

\* null / undefined where a text (a sequence of characters) is expected.
nullText == <<null>>

\* Variant: the `|| 'unknown'` default left out.
OrUnknownMissing(x) == x

\* `x || 'unknown'`: null, undefined and the empty string are falsy.
OrUnknown(x) == IF x = null \/ x = "" THEN "unknown" ELSE x

\* Array.prototype.join on an array of strings.
RECURSIVE join(_, _)
join(arr, sep) ==
    IF arr = <<>> THEN ""
    ELSE IF Len(arr) = 1 THEN arr[1]
    ELSE arr[1] \o sep \o join(Tail(arr), sep)

\* String.prototype.toLowerCase over the letters the comment bodies use;
\* a text is a sequence of one-character strings.
LowerChar(c) ==
    CASE c = "A" -> "a" [] c = "P" -> "p" [] c = "R" -> "r" [] c = "O" -> "o"
      [] c = "V" -> "v" [] c = "E" -> "e" [] c = "D" -> "d" [] c = "I" -> "i"
      [] OTHER -> c

toLowerCase(s) == [i \in 1..Len(s) |-> LowerChar(s[i])]

\* String.prototype.includes.
includes(s, sub) ==
    \E i \in 0..(Len(s) - Len(sub)) : SubSeq(s, i + 1, i + Len(sub)) = sub

approve == <<"a", "p", "p", "r", "o", "v", "e">>

(***************************************************************************)
(* The remote API (octokit.request): what each endpoint answers when the   *)
(* request succeeds.  Any request may instead reject (action Reject).      *)
(***************************************************************************)
Item(n, login, pr) ==
    [number |-> n, title |-> "t", html_url |-> "u", user |-> login, pull_request |-> pr]

\* GET /repos/apache/{repo}/issues?creator={creator}&state=all
ApiIssues(repo, creator) ==
    CASE repo = "zeppelin" /\ creator = "alice" ->
            << Item(1, "alice", TRUE), Item(2, "alice", FALSE) >>
      [] repo = "zeppelin" /\ creator = "bob" ->
            << Item(3, "bob", FALSE), Item(4, null, TRUE) >>
      [] repo = "zeppelin" /\ creator = "carol" ->
            << Item(5, "carol", FALSE), Item(8, "carol", FALSE) >>
      [] repo = "zeppelin-site" /\ creator = "alice" ->
            << Item(6, "alice", FALSE), Item(7, "alice", TRUE) >>
      [] repo = "zeppelin" /\ creator = "a" -> << Item(10, "a", FALSE) >>
      [] repo = "zeppelin" /\ creator = "b" -> << Item(11, "b", TRUE) >>
      [] repo = "zeppelin" /\ creator = "site-a" -> << Item(12, "site-a", FALSE) >>
      [] repo = "zeppelin-site" /\ creator = "a" -> << Item(10, "a", TRUE) >>
      [] OTHER -> << >>

Review(state, login) == [state |-> state, user |-> login]

\* GET /repos/apache/{repo}/pulls/{pull_number}/reviews
ApiReviews(repo, n) ==
    CASE repo = "zeppelin" /\ n = 1 ->
            << Review("COMMENTED", "x"), Review("APPROVED", "A"), Review("APPROVED", "B") >>
      [] repo = "zeppelin" /\ n = 4 ->
            << Review("DISMISSED", "A"), Review("APPROVED", null), Review("APPROVED", "B") >>
      [] repo = "zeppelin-site" /\ n = 7 ->
            << Review("CHANGES_REQUESTED", "B"), Review("COMMENTED", "A") >>
      [] repo = "zeppelin" /\ n = 11 -> << Review("APPROVED", "a") >>
      [] OTHER -> << >>

\* GET /repos/apache/{repo}/pulls/{pull_number}
ApiPull(repo, n) ==
    CASE repo = "zeppelin" /\ n = 1 -> [merged |-> TRUE]
      [] repo = "zeppelin" /\ n = 4 -> [merged |-> FALSE]
      [] repo = "zeppelin-site" /\ n = 7 -> [merged |-> TRUE]
      [] repo = "zeppelin-site" /\ n = 10 -> [merged |-> TRUE]
      [] OTHER -> [merged |-> FALSE]

Comment(body, login) == [body |-> body, user |-> login]

LooksGood == <<"l", "o", "o", "k", "s", " ", "g", "o", "o", "d">>
IApproveThis == <<"I", " ", "A", "P", "P", "R", "O", "V", "E", " ", "t", "h", "i", "s">>
PleaseDisapprove ==
    <<"p", "l", "e", "a", "s", "e", " ", "d", "i", "s", "a", "p", "p", "r", "o", "v", "e">>
Approved == <<"A", "p", "p", "r", "o", "v", "e", "d">>
ApproveBang == <<"a", "p", "p", "r", "o", "v", "e", "!">>
Aprove == <<"a", "p", "r", "o", "v", "e", " ", "a", "p", "p", "r", "o", "v">>

\* GET /repos/apache/{repo}/issues/{issue_number}/comments
ApiComments(repo, n) ==
    CASE repo = "zeppelin" /\ n = 2 ->
            << Comment(LooksGood, "x"), Comment(IApproveThis, "y"), Comment(ApproveBang, "z") >>
      [] repo = "zeppelin" /\ n = 3 ->
            << Comment(PleaseDisapprove, "z") >>
      [] repo = "zeppelin" /\ n = 5 ->
            << Comment(nullText, "x"), Comment(Approved, ""), Comment(ApproveBang, "y") >>
      [] repo = "zeppelin" /\ n = 8 ->
            << Comment(Aprove, "x"), Comment(<< >>, "y") >>
      [] repo = "zeppelin-site" /\ n = 6 ->
            << Comment(ApproveBang, "B") >>
      [] repo = "zeppelin" /\ n = 10 -> << Comment(ApproveBang, "b") >>
      [] OTHER -> << >>

(***************************************************************************)
(* The pieces of getIssues.                                                *)
(***************************************************************************)
CACHE_DURATION == 5 * 1000

\* Variant: the usernames left out of the key.
cacheKeyRepoOnly(repo, usernames) == repo

\* const cacheKey = `${repo}-${usernames.join(',')}`
cacheKey(repo, usernames) == repo \o "-" \o join(usernames, ",")

\* Variant: `<=` for `<`.
IsFreshInclusive(cache, key, t) ==
    key \in DOMAIN cache /\ t - cache[key].timestamp <= CACHE_DURATION

\* cachedData && (Date.now() - cachedData.timestamp < CACHE_DURATION)
IsFresh(cache, key, t) ==
    key \in DOMAIN cache /\ t - cache[key].timestamp < CACHE_DURATION

\* issueCache[cacheKey] = { data: issues, timestamp: Date.now() }
Put(cache, key, data, t) ==
    [k \in DOMAIN cache \cup {key} |->
        IF k = key THEN [data |-> data, timestamp |-> t] ELSE cache[k]]

\* review.state === 'APPROVED'
ReviewMatches(review) == review.state = "APPROVED"

\* comment.body?.toLowerCase().includes('approve')
CommentMatches(comment) ==
    comment.body # nullText /\ includes(toLowerCase(comment.body), approve)

\* Variant: the review loop without its `break`, so the last match wins.
RECURSIVE ScanReviewsNoBreak(_, _, _)
ScanReviewsNoBreak(data, i, acc) ==
    IF i > Len(data) THEN acc
    ELSE IF ReviewMatches(data[i])
         THEN ScanReviewsNoBreak(data, i + 1, <<TRUE, OrUnknown(data[i].user)>>)
         ELSE ScanReviewsNoBreak(data, i + 1, acc)

\* for (const review of prReviews.data) { if (...) { approved = true;
\* approvedBy = review.user?.login || 'unknown'; break; } }
\* scanned from index i; acc is <<approved, approvedBy>> before the loop.
RECURSIVE ScanReviews(_, _, _)
ScanReviews(data, i, acc) ==
    IF i > Len(data) THEN acc
    ELSE IF ReviewMatches(data[i]) THEN <<TRUE, OrUnknown(data[i].user)>>
    ELSE ScanReviews(data, i + 1, acc)

\* the same loop over commentsResponse.data
RECURSIVE ScanComments(_, _, _)
ScanComments(data, i, acc) ==
    IF i > Len(data) THEN acc
    ELSE IF CommentMatches(data[i]) THEN <<TRUE, OrUnknown(data[i].user)>>
    ELSE ScanComments(data, i + 1, acc)

\* merged = prDetails.data.merged
MergedOf(details) == details.merged

\* the record given to issues.push
IssueRecord(repo, issue, approved, approvedBy, merged) ==
    [repo |-> repo, number |-> issue.number, title |-> issue.title,
     html_url |-> issue.html_url, approved |-> approved, approvedBy |-> approvedBy,
     creator |-> OrUnknown(issue.user), merged |-> merged]

\* Variant: unshift for push.
PushFront(arr, record) == <<record>> \o arr

\* issues.push(record)
Push(arr, record) == Append(arr, record)

\* const issues: Issue[] = []  -- a fresh array; its reference is its heap index
NewArray(h) == Append(h, << >>)

(***************************************************************************)
(* Activation records.  pc is the await the call is suspended at:          *)
(*   "idle"          no call yet                                           *)
(*   "awaitIssues"   line 56, the issue list of usernames[ui]              *)
(*   "awaitReviews"  line 69, the reviews of response[ii]                  *)
(*   "awaitDetails"  line 83, the pull request of response[ii]             *)
(*   "awaitComments" line 91, the comments of response[ii]                 *)
(*   "put"           the for loop over usernames has ended (line 122)      *)
(*   "done"          the call has returned ret                             *)
(* issues and ret are array references (0: none); errs is what the call    *)
(* has written with console.error; nreq counts its octokit requests.       *)
(***************************************************************************)
Awaiting == {"awaitIssues", "awaitReviews", "awaitDetails", "awaitComments"}

NoCall ==
    [pc |-> "idle", repo |-> "", usernames |-> << >>, cacheKey |-> "", issues |-> 0,
     ui |-> 0, response |-> << >>, ii |-> 0,
     approved |-> FALSE, approvedBy |-> null, merged |-> FALSE,
     ret |-> 0, nreq |-> 0, errs |-> << >>]

\* for (const username of usernames): take the next username and request its
\* issue list, or leave the loop.  The variables of the loop body go out of scope.
NextUsername(f) ==
    LET g == [f EXCEPT !.response = << >>, !.ii = 0,
                       !.approved = FALSE, !.approvedBy = null, !.merged = FALSE]
    IN  IF f.ui < Len(f.usernames)
        THEN [g EXCEPT !.ui = f.ui + 1, !.pc = "awaitIssues", !.nreq = f.nreq + 1]
        ELSE [g EXCEPT !.pc = "put"]

\* Variant: `merged` declared outside the loop over response.data, so it keeps
\* the value the previous issue left.
NextIssueStaleMerged(f) ==
    IF f.ii < Len(f.response)
    THEN [f EXCEPT !.ii = f.ii + 1,
                   !.approved = FALSE, !.approvedBy = null,
                   !.pc = IF f.response[f.ii + 1].pull_request
                          THEN "awaitReviews" ELSE "awaitComments",
                   !.nreq = f.nreq + 1]
    ELSE NextUsername(f)

\* for (const issue of response.data): take the next issue, reset its three
\* locals and request its reviews or its comments; or go to the next username.
NextIssue(f) ==
    IF f.ii < Len(f.response)
    THEN [f EXCEPT !.ii = f.ii + 1,
                   !.approved = FALSE, !.approvedBy = null, !.merged = FALSE,
                   !.pc = IF f.response[f.ii + 1].pull_request
                          THEN "awaitReviews" ELSE "awaitComments",
                   !.nreq = f.nreq + 1]
    ELSE NextUsername(f)

\* Variant: the try/catch around the whole loop over usernames.
CatchOutsideLoop(f) ==
    [f EXCEPT !.errs = Append(f.errs, f.usernames[f.ui]), !.pc = "put",
              !.response = << >>, !.ii = 0,
              !.approved = FALSE, !.approvedBy = null, !.merged = FALSE]

\* catch (error) { console.error(...) } and on to the next username
Catch(f) == NextUsername([f EXCEPT !.errs = Append(f.errs, f.usernames[f.ui])])

\* Variant: the cache entry stored on every pass, not only after the loop.
ResumeEagerPut(p, f) ==
    /\ issueCache' = Put(issueCache, f.cacheKey, f.issues, now)
    /\ call' = [call EXCEPT ![p] =
                   IF f.pc = "put" THEN [f EXCEPT !.pc = "done", !.ret = f.issues] ELSE f]

\* Run frame f on to its next await; when the loop has ended, store the cache
\* entry and return (lines 122-123).
Resume(p, f) ==
    IF f.pc = "put"
    THEN /\ issueCache' = Put(issueCache, f.cacheKey, f.issues, now)
         /\ call' = [call EXCEPT ![p] = [f EXCEPT !.pc = "done", !.ret = f.issues]]
    ELSE /\ call' = [call EXCEPT ![p] = f]
         /\ UNCHANGED issueCache

(***************************************************************************)
(* Inputs: the arguments getIssues is called with.  Home (lines 130-131)   *)
(* calls it for "zeppelin" and for "zeppelin-site".                        *)
(***************************************************************************)
Repos == {"zeppelin", "zeppelin-site"}

UsernameLists ==
    { << >>, <<"alice">>, <<"alice", "bob">>, <<"bob", "alice">>, <<"carol">>, <<"dave">> }

Inputs == Repos \X UsernameLists

CacheInputs ==
    { <<"zeppelin", <<"a", "b">>>>, <<"zeppelin", <<"b", "a">>>>,
      <<"zeppelin", <<"site-a">>>>, <<"zeppelin-site", <<"a">>>> }

RenderInputs == { <<"zeppelin", <<"a", "b">>>>, <<"zeppelin-site", <<"a">>>> }

(***************************************************************************)
(* Actions.                                                                *)
(***************************************************************************)
Init ==
    /\ call = [p \in Procs |-> NoCall]
    /\ issueCache = [k \in {} |-> k]
    /\ heap = << >>
    /\ owner = << >>
    /\ now = 0

\* getIssues(repo, usernames), lines 41-56: up to the first await, or to the
\* return on a cache hit (or on an empty username list).
Call(p, repo, usernames, maxRuns) ==
    /\ call[p].pc \in {"idle", "done"}
    /\ LET key == cacheKey(repo, usernames)
           f == [NoCall EXCEPT !.repo = repo, !.usernames = usernames, !.cacheKey = key]
       IN  IF IsFresh(issueCache, key, now)
           THEN /\ call' = [call EXCEPT ![p] =
                               [f EXCEPT !.pc = "done", !.ret = issueCache[key].data]]
                /\ UNCHANGED <<issueCache, heap, owner>>
           ELSE /\ Len(heap) < maxRuns
                /\ heap' = NewArray(heap)
                /\ owner' = Append(owner, <<repo, usernames>>)
                /\ Resume(p, NextUsername([f EXCEPT !.issues = Len(heap')]))
    /\ UNCHANGED now

\* The issue list arrives (line 56 resolves): enter the loop over response.data.
IssuesArrive(p) ==
    LET f == call[p] IN
    /\ f.pc = "awaitIssues"
    /\ Resume(p, NextIssue([f EXCEPT !.response = ApiIssues(f.repo, f.usernames[f.ui]),
                                      !.ii = 0]))
    /\ UNCHANGED <<heap, owner, now>>

\* The reviews arrive (line 69 resolves): scan them, request the pull request.
ReviewsArrive(p) ==
    LET f == call[p]
        found == ScanReviews(ApiReviews(f.repo, f.response[f.ii].number), 1,
                             <<f.approved, f.approvedBy>>)
    IN
    /\ f.pc = "awaitReviews"
    /\ call' = [call EXCEPT ![p] =
                   [f EXCEPT !.approved = found[1], !.approvedBy = found[2],
                             !.pc = "awaitDetails", !.nreq = f.nreq + 1]]
    /\ UNCHANGED <<issueCache, heap, owner, now>>

\* The pull request arrives (line 83 resolves): read merged, push the record.
DetailsArrive(p) ==
    LET f == call[p]
        issue == f.response[f.ii]
        merged == MergedOf(ApiPull(f.repo, issue.number))
    IN
    /\ f.pc = "awaitDetails"
    /\ heap' = [heap EXCEPT ![f.issues] =
                   Push(@, IssueRecord(f.repo, issue, f.approved, f.approvedBy, merged))]
    /\ Resume(p, NextIssue([f EXCEPT !.merged = merged]))
    /\ UNCHANGED <<owner, now>>

\* The comments arrive (line 91 resolves): scan them, push the record.
CommentsArrive(p) ==
    LET f == call[p]
        issue == f.response[f.ii]
        found == ScanComments(ApiComments(f.repo, issue.number), 1,
                              <<f.approved, f.approvedBy>>)
    IN
    /\ f.pc = "awaitComments"
    /\ heap' = [heap EXCEPT ![f.issues] =
                   Push(@, IssueRecord(f.repo, issue, found[1], found[2], f.merged))]
    /\ Resume(p, NextIssue([f EXCEPT !.approved = found[1], !.approvedBy = found[2]]))
    /\ UNCHANGED <<owner, now>>

\* The awaited request rejects (network failure, rate limit, not found).
Reject(p) ==
    /\ call[p].pc \in Awaiting
    /\ Resume(p, Catch(call[p]))
    /\ UNCHANGED <<heap, owner, now>>

\* Time passes: by one millisecond, or by one millisecond less than the window.
Tick(d) ==
    /\ \/ d = 1 /\ now % (CACHE_DURATION - 1) < MaxTicks
       \/ d = CACHE_DURATION - 1 /\ now \div (CACHE_DURATION - 1) < MaxTicks
    /\ now' = now + d
    /\ UNCHANGED <<call, issueCache, heap, owner>>

NextOf(procs, inputs, maxRuns) ==
    \/ \E p \in procs, in \in inputs : Call(p, in[1], in[2], maxRuns)
    \/ \E p \in procs : IssuesArrive(p)
    \/ \E p \in procs : ReviewsArrive(p)
    \/ \E p \in procs : DetailsArrive(p)
    \/ \E p \in procs : CommentsArrive(p)
    \/ \E p \in procs : Reject(p)
    \/ \E d \in {1, CACHE_DURATION - 1} : Tick(d)

\* One render at a time, every input.
Next == NextOf({1}, Inputs, MaxRuns)

Spec == Init /\ [][Next]_vars

\* One render at a time, several runs, on the inputs whose cache keys are close.
NextCache == NextOf({1}, CacheInputs, MaxCacheRuns)

SpecCache == Init /\ [][NextCache]_vars

\* Overlapping renders.
NextRenders == NextOf(Procs, RenderInputs, MaxRenderRuns)

SpecRenders == Init /\ [][NextRenders]_vars

(***************************************************************************)
(* Vocabulary of the properties.                                           *)
(***************************************************************************)
Range(seq) == { seq[i] : i \in 1..Len(seq) }

Min(S) == CHOOSE m \in S : \A n \in S : m <= n

\* Every username the API knows in some repository.
Users == {"alice", "bob", "carol", "a", "b", "site-a"}

\* The API items of a repository, whoever created them.
ItemsOf(repo) == UNION { Range(ApiIssues(repo, u)) : u \in Users }

ItemOf(repo, n) == CHOOSE it \in ItemsOf(repo) : it.number = n

\* The issue numbers of a list of records or of API items, in order.
Numbers(list) == [i \in 1..Len(list) |-> list[i].number]

\* Every record of every `issues` array: all that getIssues returns or caches.
Records == UNION { Range(heap[r]) : r \in 1..Len(heap) }

\* Call p has returned from a cache miss / from a cache hit.
ReturnedMiss(p) == call[p].pc = "done" /\ call[p].issues # 0
ReturnedHit(p) == call[p].pc = "done" /\ call[p].issues = 0

\* The list call p returned.
Returned(p) == heap[call[p].ret]

(***************************************************************************)
(* C1.  When the requests for a username u fail, the issues of every other *)
(* username v of the same call whose requests all succeeded are all in the *)
(* returned list, and the call returns normally (it stores and returns its *)
(* own array).                                                             *)
(***************************************************************************)
C1_FailureIsolated ==
    \A p \in Procs :
        ReturnedMiss(p) =>
            LET f == call[p] IN
            /\ f.ret = f.issues
            /\ \A u \in Range(f.errs) :
                 \A v \in Range(f.usernames) \ Range(f.errs) :
                    \A n \in Range(Numbers(ApiIssues(f.repo, v))) :
                        \E rec \in Range(Returned(p)) : rec.repo = f.repo /\ rec.number = n

\* bob's list request failed, alice's issues are there.
C1_Witness ==
    /\ ReturnedMiss(1)
    /\ call[1].repo = "zeppelin"
    /\ call[1].usernames = <<"bob", "alice">>
    /\ call[1].errs = <<"bob">>
    /\ Numbers(Returned(1)) = <<1, 2>>

(***************************************************************************)
(* C2.  When any request made for username u fails, the returned list      *)
(* holds no issue of u.                                                    *)
(***************************************************************************)
C2_FailedUsernameOmitted ==
    \A p \in Procs :
        ReturnedMiss(p) =>
            \A u \in Range(call[p].errs) :
                \A rec \in Range(Returned(p)) :
                    rec.number \notin Range(Numbers(ApiIssues(call[p].repo, u)))

(***************************************************************************)
(* C5.  In every record returned or cached, approved is true exactly when  *)
(* approvedBy is not null.                                                 *)
(***************************************************************************)
C5_ApprovedIffApprovedBy ==
    \A rec \in Records : rec.approved <=> (rec.approvedBy # null)

\* A returned record approved by a reviewer whose login is missing.
C5_Witness ==
    /\ ReturnedMiss(1)
    /\ \E rec \in Range(Returned(1)) :
          rec.number = 4 /\ rec.approved /\ rec.approvedBy = "unknown"

(***************************************************************************)
(* C6.  A record made from an item without pull_request has merged false;  *)
(* merged is true only for a pull request whose detail record says merged. *)
(***************************************************************************)
C6_MergedOnlyForMergedPulls ==
    \A rec \in Records :
        LET item == ItemOf(rec.repo, rec.number) IN
        /\ ~item.pull_request => rec.merged = FALSE
        /\ rec.merged = TRUE =>
              item.pull_request /\ ApiPull(rec.repo, rec.number).merged = TRUE

\* A merged pull request followed by a plain issue of the same username.
C6_Witness ==
    /\ ReturnedMiss(1)
    /\ call[1].repo = "zeppelin"
    /\ Len(Returned(1)) >= 2
    /\ Returned(1)[1].number = 1 /\ Returned(1)[1].merged
    /\ Returned(1)[2].number = 2 /\ ~Returned(1)[2].merged

\* The first signal, in API order, that matches: <<approved, approvedBy>>.
FirstSignal(signals, Matches(_)) ==
    LET M == { i \in 1..Len(signals) : Matches(signals[i]) }
    IN  IF M = {} THEN <<FALSE, null>>
        ELSE LET login == signals[Min(M)].user
             IN  <<TRUE, IF login \in {null, ""} THEN "unknown" ELSE login>>

IsApprovedState(review) == review.state = "APPROVED"

SaysApprove(comment) ==
    comment.body # nullText /\ includes(toLowerCase(comment.body), approve)

(***************************************************************************)
(* C7.  Approval is decided by the first matching signal in API order: the *)
(* first review in state "APPROVED" for a pull request, the first comment  *)
(* whose lower-cased body contains "approve" for a plain issue; approvedBy *)
(* is that signal's author ("unknown" when the login is missing), and with *)
(* no match approved is false and approvedBy null.                         *)
(***************************************************************************)
C7_FirstMatchWins ==
    /\ \A rec \in Records :
          <<rec.approved, rec.approvedBy>> =
              IF ItemOf(rec.repo, rec.number).pull_request
              THEN FirstSignal(ApiReviews(rec.repo, rec.number), IsApprovedState)
              ELSE FirstSignal(ApiComments(rec.repo, rec.number), SaysApprove)
    /\ \A rec \in Records :
          rec.repo = "zeppelin" =>
            \* reviews COMMENTED, APPROVED by A, APPROVED by B
            /\ rec.number = 1 => rec.approved /\ rec.approvedBy = "A"
            \* comments "looks good", "I APPROVE this" by y, "approve!" by z
            /\ rec.number = 2 => rec.approved /\ rec.approvedBy = "y"
            \* comment "please disapprove" by z
            /\ rec.number = 3 => rec.approved /\ rec.approvedBy = "z"
            \* comments "aprove approv" and ""
            /\ rec.number = 8 => ~rec.approved /\ rec.approvedBy = null

\* Both of alice's items, each with a later matching signal, were returned.
C7_Witness ==
    /\ ReturnedMiss(1)
    /\ call[1].repo = "zeppelin"
    /\ {1, 2} \subseteq Range(Numbers(Returned(1)))

\* nums is, username by username from the i-th on, a prefix of the username's
\* issue numbers: the whole of them when no request for the username failed.
RECURSIVE InCallOrder(_, _, _, _, _)
InCallOrder(nums, repo, usernames, errs, i) ==
    IF i > Len(usernames) THEN nums = << >>
    ELSE LET mine == Numbers(ApiIssues(repo, usernames[i]))
         IN  \E n \in 0..Len(mine) :
                /\ n <= Len(nums)
                /\ usernames[i] \notin Range(errs) => n = Len(mine)
                /\ SubSeq(nums, 1, n) = SubSeq(mine, 1, n)
                /\ InCallOrder(SubSeq(nums, n + 1, Len(nums)), repo, usernames, errs, i + 1)

(***************************************************************************)
(* C8.  The list a miss returns follows the order of the usernames and,    *)
(* within a username, the order of the API's answer: it is the             *)
(* concatenation, username by username, of a prefix of that username's     *)
(* issue list -- the whole list when no request for the username failed.   *)
(* The array returned is the array cached.                                 *)
(***************************************************************************)
C8_OrderPreserved ==
    \A p \in Procs :
        ReturnedMiss(p) =>
            LET f == call[p] IN
            /\ InCallOrder(Numbers(Returned(p)), f.repo, f.usernames, f.errs, 1)
            /\ issueCache[f.cacheKey].data = f.ret
            /\ \A rec \in Range(Returned(p)) : rec.repo = f.repo

\* Two usernames, two issues each, nothing failed.
C8_Witness ==
    /\ ReturnedMiss(1)
    /\ call[1].usernames = <<"bob", "alice">>
    /\ Numbers(Returned(1)) = <<3, 4, 1, 2>>

(***************************************************************************)
(* Vocabulary of the cache properties.                                     *)
(***************************************************************************)
\* This step is render p entering getIssues.
CallStep(p) == call[p].pc \in {"idle", "done"} /\ call'[p] # call[p]

\* This step is the pipeline run of render p ending (line 122 executed).
PutStep(p) == call[p].pc # "done" /\ call'[p].pc = "done" /\ call'[p].issues # 0

\* The arrays the cache entries hold.
Cached == { issueCache[k].data : k \in DOMAIN issueCache }

(***************************************************************************)
(* C3.  A call made at time t finds the entry of its key, stored at s:     *)
(* when t - s < 5000 it returns the stored array, untouched, without any   *)
(* request and without touching the cache; otherwise (or with no entry)    *)
(* it starts the pipeline on a fresh empty array, and when that run ends   *)
(* the entry is overwritten with the run's array and the time of its end.  *)
(***************************************************************************)
C3_FreshnessWindow ==
    [][\A p \in Procs :
        /\ CallStep(p) =>
              LET g == call'[p]
                  key == g.cacheKey
              IN  IF key \in DOMAIN issueCache /\ now - issueCache[key].timestamp < 5000
                  THEN /\ g.pc = "done"
                       /\ g.issues = 0
                       /\ g.ret = issueCache[key].data
                       /\ g.nreq = 0
                       /\ heap' = heap
                       /\ issueCache' = issueCache
                  ELSE /\ g.issues = Len(heap) + 1
                       /\ g.issues \notin Cached
                       /\ heap'[g.issues] = << >>
                       /\ g.usernames # << >> => g.pc = "awaitIssues" /\ g.nreq = 1
        /\ PutStep(p) =>
              issueCache'[call'[p].cacheKey] = [data |-> call'[p].issues, timestamp |-> now]
      ]_vars

\* One input run, its entry expired, run again, and then served from the cache.
C3_Witness ==
    /\ ReturnedHit(1)
    /\ call[1].ret = 2
    /\ owner[1] = owner[2]
    /\ owner[2] = <<call[1].repo, call[1].usernames>>
    /\ issueCache[call[1].cacheKey].timestamp >= 4999

AB == <<"zeppelin", <<"a", "b">>>>
BA == <<"zeppelin", <<"b", "a">>>>

(***************************************************************************)
(* C4.  The username lists ["a","b"] and ["b","a"] of "zeppelin" never     *)
(* share an entry: a call with one of them is never served the list a call *)
(* with the other one stored, so it misses while only the other's entry is *)
(* fresh.                                                                  *)
(***************************************************************************)
C4_OrderSensitive ==
    \A p \in Procs :
        LET f == call[p] IN
        (f.pc = "done" /\ <<f.repo, f.usernames>> \in {AB, BA}) =>
            owner[f.ret] = <<f.repo, f.usernames>>

\* ["b","a"] is being fetched while the entry ["a","b"] stored is still fresh.
C4_Witness ==
    /\ call[1].pc \in Awaiting
    /\ <<call[1].repo, call[1].usernames>> = BA
    /\ \E k \in DOMAIN issueCache :
          /\ owner[issueCache[k].data] = AB
          /\ now - issueCache[k].timestamp < CACHE_DURATION

(***************************************************************************)
(* C10.  A cache hit for (repo, usernames) returns only a list that a call *)
(* with the same repo and the same usernames stored.                       *)
(***************************************************************************)
C10_HitReturnsOwnEntry ==
    \A p \in Procs :
        ReturnedHit(p) => owner[call[p].ret] = <<call[p].repo, call[p].usernames>>

\* Every entry holds the array of a run of its key, and that run has ended.
EntriesComplete ==
    \A k \in DOMAIN issueCache :
        LET r == issueCache[k].data IN
        /\ r \in 1..Len(heap)
        /\ cacheKey(owner[r][1], owner[r][2]) = k
        /\ \A p \in Procs : call[p].pc # "done" => call[p].issues # r

(***************************************************************************)
(* C9.  Whatever the interleaving of overlapping calls: every cache entry  *)
(* holds the array of a pipeline run of its key that has ended, no call    *)
(* still appends to a cached array, an entry appears or changes only in    *)
(* the step that ends a run of its key (and then holds that run's array    *)
(* and the time of that step), entries are never removed, and a cached     *)
(* array is never edited.                                                  *)
(***************************************************************************)
C9_CacheNeverCorrupted ==
    [][/\ EntriesComplete'
       /\ \A k \in DOMAIN issueCache :
            /\ k \in DOMAIN issueCache'
            /\ heap'[issueCache[k].data] = heap[issueCache[k].data]
       /\ \A k \in DOMAIN issueCache' :
            (k \notin DOMAIN issueCache \/ issueCache'[k] # issueCache[k]) =>
                \E p \in Procs :
                    /\ PutStep(p)
                    /\ call'[p].cacheKey = k
                    /\ issueCache'[k] = [data |-> call'[p].issues, timestamp |-> now]
      ]_vars

\* Two overlapping runs of one key: the first has ended and is cached, the
\* second has appended part of its list.
C9_Witness ==
    /\ call[1].pc = "done" /\ call[1].issues = 1
    /\ call[2].pc \in Awaiting /\ call[2].issues = 2
    /\ call[2].cacheKey = call[1].cacheKey
    /\ Len(heap[1]) = 2
    /\ Len(heap[2]) = 1
    /\ issueCache[call[1].cacheKey].data = 1

====
